---- MODULE Spec2Model ----
(***************************************************************************)
(* Dining philosophers (src/dining_philosophers.py): one main thread that  *)
(* validates the strategy name, builds a DiningTable, starts one thread    *)
(* per philosopher, sleeps, raises the stop signal, joins every thread     *)
(* with a timeout and prints the report; and N philosopher threads that    *)
(* cycle think -> acquire first fork -> acquire second fork -> eat ->      *)
(* release second -> release first under one of three strategies.          *)
(*                                                                         *)
(* Time is not modelled: time.sleep() only delays a thread, a join timeout *)
(* and the philosopher's own duration test may expire at any point the     *)
(* scheduler allows.  Every access to state shared between threads (a      *)
(* fork's lock, running, meals_eaten, is_alive) is one step.               *)
(***************************************************************************)
EXTENDS Integers, Sequences, FiniteSets

\* Table sizes explored: every size up to the smallest one the test harness
\* sweeps (NUM_PHILOSOPHERS_LIST, run_tests_fast.py line 19).
SmallestHarnessSize == 3
TableSizes == 1 .. SmallestHarnessSize
\* The run's duration is finite, so a philosopher begins finitely many
\* cycles: on the tables smaller than the harness's a philosopher begins no
\* further cycle once it has eaten MaxMeals times, on the harness's sizes
\* once it has eaten once.
MaxMeals == 2
MealCap(n) == IF n < SmallestHarnessSize THEN MaxMeals ELSE 1
\* Table size of the scenario specifications (NUM_PHILOSOPHERS, line 17).
NUM_PHILOSOPHERS == 5
\* Scenario specifications: number of philosophers that run cycles.
Scheduled5 == 2

\* Strategy enum values (lines 24-27) and one name outside the enum.
StrategyValues == {"deadlock", "hierarchy", "asymmetric"}
StrategyNames == StrategyValues \cup {"bogus"}

\* Value of a report field or of the exit status that is not set yet.
NoVal == 0 - 1

VARIABLES
    strategy_name,    \* sys.argv[1].lower() or MODE (main, lines 329-331)
    num_philosophers, \* DiningTable.num_philosophers
    tpc,              \* position of the main thread
    k,                \* index of the main thread's current for loop
    forks,            \* DiningTable.forks: ids of the forks created
    philosophers,     \* DiningTable.philosophers: ids of the philosophers created
    left_fork,        \* Philosopher.left_fork.id, per philosopher
    right_fork,       \* Philosopher.right_fork.id, per philosopher
    locked,           \* Fork.lock state, per fork
    held,             \* forks each philosopher is inside a `with` of, in acquisition order
    pc,               \* position of each philosopher thread
    meals_eaten,      \* Philosopher.meals_eaten
    running,          \* Philosopher.running
    warned,           \* philosophers logged "still blocked (DEADLOCK)" by start()
    total_meals,      \* report_results: total_meals (line 300)
    alive_count,      \* report_results: alive_count (line 301)
    report_lines,     \* report_results: the per-philosopher lines (304-306)
    verdict,          \* report_results: which closing message was logged
    exit_status       \* status the process exited with, NoVal while it runs

vars == <<strategy_name, num_philosophers, tpc, k, forks, philosophers,
          left_fork, right_fork, locked, held, pc, meals_eaten, running,
          warned, total_meals, alive_count, report_lines, verdict, exit_status>>

tableVars == <<forks, philosophers, left_fork, right_fork>>
philVars == <<locked, held, pc, meals_eaten>>
reportVars == <<total_meals, alive_count, report_lines, verdict>>

Ids == 0 .. (num_philosophers - 1)

Empty == [i \in {} |-> 0]

----------------------------------------------------------------------------
\* Pure helpers

Min(a, b) == IF a <= b THEN a ELSE b
Max(a, b) == IF a >= b THEN a ELSE b

RECURSIVE SumOver(_, _)
SumOver(f, S) ==
    IF S = {} THEN 0
    ELSE LET x == CHOOSE y \in S : TRUE IN f[x] + SumOver(f, S \ {x})

\* Thread.is_alive(): true from start() until run() returns.
is_alive(i) == pc[i] \notin {"created", "done"}

ValidStrategyUnchecked(name) == TRUE

\* Strategy(strategy_name) raises ValueError for a name outside the enum.
ValidStrategy(name) == name \in StrategyValues

RightOfNoWrap(i, n) == IF i + 1 < n THEN i + 1 ELSE i

\* Cyclic neighbour assignment of setup().
LeftOf(i, n) == i
RightOf(i, n) == (i + 1) % n

\* Acquisition orders, as <<first fork, second fork>>.

\* deadlock_strategy: always left then right.
DeadlockOrder(i) == <<left_fork[i], right_fork[i]>>

HierarchyOrderUnordered(i) == <<left_fork[i], right_fork[i]>>

\* hierarchy_strategy: first_fork = min(left, right), second_fork = max(left, right).
HierarchyOrder(i) ==
    <<Min(left_fork[i], right_fork[i]), Max(left_fork[i], right_fork[i])>>

AsymmetricOrderSameForAll(i) == <<left_fork[i], right_fork[i]>>

\* asymmetric_strategy: even ids take left then right, odd ids right then left.
AsymmetricOrder(i) ==
    IF i % 2 = 0 THEN <<left_fork[i], right_fork[i]>>
                 ELSE <<right_fork[i], left_fork[i]>>

\* The dispatch of run() (lines 95-100).
Order(i) ==
    CASE strategy_name = "deadlock" -> DeadlockOrder(i)
      [] strategy_name = "hierarchy" -> HierarchyOrder(i)
      [] OTHER -> AsymmetricOrder(i)

FirstFork(i) == Order(i)[1]
SecondFork(i) == Order(i)[2]

CanAcquireAlways(f) == TRUE

\* threading.Lock.acquire() (entering `with fork.lock`) returns only when
\* the lock is unlocked.
CanAcquire(f) == ~locked[f]

LockWithoutMarking(f) == locked

\* threading.Lock.acquire() leaves the lock locked.
Lock(f) == [locked EXCEPT ![f] = TRUE]

UnlockForgotten(f) == locked

\* threading.Lock.release() (leaving `with fork.lock`) leaves it unlocked.
Unlock(f) == [locked EXCEPT ![f] = FALSE]

----------------------------------------------------------------------------
\* Initial state: the process has been launched with some strategy name and
\* some configured table size; nothing has been constructed yet.

InitWith(names, sizes) ==
    /\ strategy_name \in names
    /\ num_philosophers \in sizes
    /\ tpc = "main"
    /\ k = 0
    /\ forks = {}
    /\ philosophers = {}
    /\ left_fork = Empty
    /\ right_fork = Empty
    /\ locked = Empty
    /\ held = Empty
    /\ pc = Empty
    /\ meals_eaten = Empty
    /\ running = Empty
    /\ warned = {}
    /\ total_meals = NoVal
    /\ alive_count = NoVal
    /\ report_lines = <<>>
    /\ verdict = "none"
    /\ exit_status = NoVal

Init == InitWith(StrategyNames, TableSizes)

----------------------------------------------------------------------------
\* Main thread

\* main(), lines 329-339: Strategy(strategy_name), sys.exit(1) on ValueError.
MainValidate ==
    /\ tpc = "main"
    /\ IF ValidStrategy(strategy_name)
         THEN /\ tpc' = "setup"
              /\ exit_status' = exit_status
         ELSE /\ tpc' = "exit1"
              /\ exit_status' = 1
    /\ UNCHANGED <<strategy_name, num_philosophers, k, tableVars, philVars,
                   running, warned, reportVars>>

\* DiningTable.setup(), lines 222-256 (the constructors of Fork and
\* Philosopher included).
Setup ==
    /\ tpc = "setup"
    /\ forks' = 0 .. (num_philosophers - 1)
    /\ philosophers' = 0 .. (num_philosophers - 1)
    /\ left_fork' = [i \in Ids |-> LeftOf(i, num_philosophers)]
    /\ right_fork' = [i \in Ids |-> RightOf(i, num_philosophers)]
    /\ locked' = [f \in Ids |-> FALSE]
    /\ held' = [i \in Ids |-> <<>>]
    /\ pc' = [i \in Ids |-> "created"]
    /\ meals_eaten' = [i \in Ids |-> 0]
    /\ running' = [i \in Ids |-> TRUE]
    /\ tpc' = "starting"
    /\ k' = 0
    /\ UNCHANGED <<strategy_name, num_philosophers, warned, reportVars, exit_status>>

LoopStepFirstOnly(next) ==
    /\ k' = 0
    /\ tpc' = next

\* Advance the main thread's for loop over self.philosophers.
LoopStep(next) ==
    IF k + 1 < num_philosophers
      THEN /\ k' = k + 1
           /\ tpc' = tpc
      ELSE /\ k' = 0
           /\ tpc' = next

\* start(), lines 266-267: philosopher.start() for the k-th philosopher.
StartPhilosopher ==
    /\ tpc = "starting"
    /\ pc' = [pc EXCEPT ![k] = "loop"]
    /\ LoopStep("sleeping")
    /\ UNCHANGED <<strategy_name, num_philosophers, tableVars, locked, held,
                   meals_eaten, running, warned, reportVars, exit_status>>

\* start(), lines 270-275: time.sleep(self.duration).
Sleep ==
    /\ tpc = "sleeping"
    /\ tpc' = "stopping"
    /\ UNCHANGED <<strategy_name, num_philosophers, k, tableVars, philVars,
                   running, warned, reportVars, exit_status>>

\* start(), lines 278-279 and stop(), lines 204-206.
StopPhilosopher ==
    /\ tpc = "stopping"
    /\ running' = [running EXCEPT ![k] = FALSE]
    /\ LoopStep("joining")
    /\ UNCHANGED <<strategy_name, num_philosophers, tableVars, philVars,
                   warned, reportVars, exit_status>>

JoinWithoutTimeout(i) == FALSE

\* join(timeout=2.0) on a thread that is still alive returns once the
\* timeout has expired.
JoinMayReturn(i) == TRUE

\* start(), lines 283-286: join(timeout=2.0), then the is_alive() warning.
JoinPhilosopher ==
    /\ tpc = "joining"
    /\ \/ ~is_alive(k)
       \/ JoinMayReturn(k)
    /\ warned' = IF is_alive(k) THEN warned \cup {k} ELSE warned
    /\ LoopStep("report_total")
    /\ UNCHANGED <<strategy_name, num_philosophers, tableVars, philVars,
                   running, reportVars, exit_status>>

\* report_results(), line 300.
ReportTotalMeals ==
    /\ tpc = "report_total"
    /\ total_meals' = SumOver(meals_eaten, philosophers)
    /\ tpc' = "report_alive"
    /\ UNCHANGED <<strategy_name, num_philosophers, k, tableVars, philVars,
                   running, warned, alive_count, report_lines, verdict, exit_status>>

\* report_results(), line 301.
ReportAliveCount ==
    /\ tpc = "report_alive"
    /\ alive_count' = Cardinality({i \in philosophers : is_alive(i)})
    /\ tpc' = "report_lines"
    /\ UNCHANGED <<strategy_name, num_philosophers, k, tableVars, philVars,
                   running, warned, total_meals, report_lines, verdict, exit_status>>

\* report_results(), lines 304-306: one line per philosopher.
ReportLine ==
    /\ tpc = "report_lines"
    /\ report_lines' = Append(report_lines,
            [meals |-> meals_eaten[k],
             status |-> IF is_alive(k) THEN "BLOCKED" ELSE "Finished"])
    /\ LoopStep("report_verdict")
    /\ UNCHANGED <<strategy_name, num_philosophers, tableVars, philVars,
                   running, warned, total_meals, alive_count, verdict, exit_status>>

VerdictIgnoringCount(count) == "no_deadlock"

\* report_results(), lines 312-317.
Verdict(count) == IF count > 0 THEN "deadlock" ELSE "no_deadlock"

\* report_results(), lines 309-319; start() and main() then return.
ReportVerdict ==
    /\ tpc = "report_verdict"
    /\ verdict' = Verdict(alive_count)
    /\ tpc' = "shutdown"
    /\ UNCHANGED <<strategy_name, num_philosophers, k, tableVars, philVars,
                   running, warned, total_meals, alive_count, report_lines, exit_status>>

\* Philosopher threads are created without daemon=True (line 63), so the
\* interpreter's shutdown joins each of them, without a timeout, before the
\* process exits.
ExitMayProceed == \A i \in philosophers : ~is_alive(i)

\* The process exits with status 0 after main() returned.
ProcessExit ==
    /\ tpc = "shutdown"
    /\ ExitMayProceed
    /\ tpc' = "exited"
    /\ exit_status' = 0
    /\ UNCHANGED <<strategy_name, num_philosophers, k, tableVars, philVars,
                   running, warned, reportVars>>

TableNext ==
    \/ MainValidate
    \/ Setup
    \/ StartPhilosopher
    \/ Sleep
    \/ StopPhilosopher
    \/ JoinPhilosopher
    \/ ReportTotalMeals
    \/ ReportAliveCount
    \/ ReportLine
    \/ ReportVerdict
    \/ ProcessExit

----------------------------------------------------------------------------
\* Philosopher threads

\* Philosopher i exists and its thread is at position p.
At(i, p) == i \in philosophers /\ pc[i] = p

PhilUnchanged ==
    UNCHANGED <<strategy_name, num_philosophers, tpc, k, tableVars, running,
                warned, reportVars, exit_status>>

MayContinueIgnoringStop(i) == meals_eaten[i] < MealCap(num_philosophers)

\* run(), line 92: the loop test passes while running is set and the
\* duration has not elapsed.
MayContinue(i) == running[i] /\ meals_eaten[i] < MealCap(num_philosophers)

\* run(), line 92: the loop test fails when running is unset or when
\* time.time() - start_time has reached the duration.
MayLeave(i) == TRUE

LoopContinue(i) ==
    /\ At(i, "loop")
    /\ MayContinue(i)
    /\ pc' = [pc EXCEPT ![i] = "think"]
    /\ UNCHANGED <<locked, held, meals_eaten>>
    /\ PhilUnchanged

LoopExitClearingRunning(i) ==
    /\ At(i, "loop")
    /\ pc' = [pc EXCEPT ![i] = "done"]
    /\ running' = [running EXCEPT ![i] = FALSE]
    /\ UNCHANGED <<strategy_name, num_philosophers, tpc, k, tableVars, locked,
                   held, meals_eaten, warned, reportVars, exit_status>>

\* run(), line 102: the thread logs "Stopping" and terminates.
LoopExit(i) ==
    /\ At(i, "loop")
    /\ ~running[i] \/ MayLeave(i)
    /\ pc' = [pc EXCEPT ![i] = "done"]
    /\ UNCHANGED <<locked, held, meals_eaten>>
    /\ PhilUnchanged

\* think(), lines 76-79, then the strategy dispatch.
Think(i) ==
    /\ At(i, "think")
    /\ pc' = [pc EXCEPT ![i] = "acquire_first"]
    /\ UNCHANGED <<locked, held, meals_eaten>>
    /\ PhilUnchanged

\* After the first fork: the deadlock strategy sleeps 0.5 s (line 120), the
\* other two go straight for the second fork.
AfterFirst == IF strategy_name = "deadlock" THEN "pause" ELSE "acquire_second"

\* `with first_fork.lock` (lines 115, 151, 178, 193).
AcquireFirst(i) ==
    /\ At(i, "acquire_first")
    /\ CanAcquire(FirstFork(i))
    /\ locked' = Lock(FirstFork(i))
    /\ held' = [held EXCEPT ![i] = Append(@, FirstFork(i))]
    /\ pc' = [pc EXCEPT ![i] = AfterFirst]
    /\ UNCHANGED meals_eaten
    /\ PhilUnchanged

\* deadlock_strategy, line 120: time.sleep(0.5) while holding the left fork.
Pause(i) ==
    /\ At(i, "pause")
    /\ pc' = [pc EXCEPT ![i] = "acquire_second"]
    /\ UNCHANGED <<locked, held, meals_eaten>>
    /\ PhilUnchanged

\* `with second_fork.lock` (lines 124, 156, 182, 197).
AcquireSecond(i) ==
    /\ At(i, "acquire_second")
    /\ CanAcquire(SecondFork(i))
    /\ locked' = Lock(SecondFork(i))
    /\ held' = [held EXCEPT ![i] = Append(@, SecondFork(i))]
    /\ pc' = [pc EXCEPT ![i] = "eat"]
    /\ UNCHANGED meals_eaten
    /\ PhilUnchanged

EatWithoutCounting(i) ==
    /\ At(i, "eat")
    /\ pc' = [pc EXCEPT ![i] = "release_second"]
    /\ UNCHANGED <<locked, held, meals_eaten>>
    /\ PhilUnchanged

\* eat(), lines 81-86.  At "eat" the thread is inside eat(), logging and
\* sleeping its 0.2 s; the step is the sleep returning and the
\* meals_eaten += 1 of line 85 that follows it.
Eat(i) ==
    /\ At(i, "eat")
    /\ meals_eaten' = [meals_eaten EXCEPT ![i] = @ + 1]
    /\ pc' = [pc EXCEPT ![i] = "release_second"]
    /\ UNCHANGED <<locked, held>>
    /\ PhilUnchanged

WithoutReleasing(s, f) == s

\* The forks still held after leaving the `with` block of fork f.
Without(s, f) == SelectSeq(s, LAMBDA x : x # f)

\* Leaving the inner `with` (lines 127, 159, 185, 200).
ReleaseSecond(i) ==
    /\ At(i, "release_second")
    /\ locked' = Unlock(SecondFork(i))
    /\ held' = [held EXCEPT ![i] = Without(@, SecondFork(i))]
    /\ pc' = [pc EXCEPT ![i] = "release_first"]
    /\ UNCHANGED meals_eaten
    /\ PhilUnchanged

\* Leaving the outer `with` (lines 129, 161, 187, 202); back to the loop test.
ReleaseFirst(i) ==
    /\ At(i, "release_first")
    /\ locked' = Unlock(FirstFork(i))
    /\ held' = [held EXCEPT ![i] = Without(@, FirstFork(i))]
    /\ pc' = [pc EXCEPT ![i] = "loop"]
    /\ UNCHANGED meals_eaten
    /\ PhilUnchanged

PhilNext(i) ==
    \/ LoopContinue(i)
    \/ LoopExit(i)
    \/ Think(i)
    \/ AcquireFirst(i)
    \/ Pause(i)
    \/ AcquireSecond(i)
    \/ Eat(i)
    \/ ReleaseSecond(i)
    \/ ReleaseFirst(i)

AllIds == 0 .. (NUM_PHILOSOPHERS - 1)

Next == TableNext \/ \E i \in AllIds : PhilNext(i)

Spec == Init /\ [][Next]_vars

\* The same program under a fair scheduler: the main thread and every
\* philosopher thread that can take a step eventually takes one.
Fairness ==
    /\ WF_vars(TableNext)
    /\ \A i \in AllIds : WF_vars(PhilNext(i))

FairSpec == Init /\ [][Next]_vars /\ Fairness

\* The NUM_PHILOSOPHERS = 5 scenarios, under the schedules in which only
\* the first Scheduled5 philosophers get to run think-eat cycles: the other
\* threads are started and can only fail their loop test and terminate.
Cycling5 == 0 .. (Scheduled5 - 1)
Init5 == InitWith(StrategyValues, {NUM_PHILOSOPHERS})
Next5 ==
    \/ TableNext
    \/ \E i \in Cycling5 : PhilNext(i)
    \/ \E i \in AllIds \ Cycling5 : LoopExit(i)
Spec5 == Init5 /\ [][Next5]_vars

----------------------------------------------------------------------------
\* Derived notions used by the properties

Range(q) == {q[n] : n \in 1 .. Len(q)}

\* Forks philosopher i currently holds.
Holds(i) == Range(held[i])

\* Philosopher i's thread is inside Lock.acquire() for fork f and cannot
\* return from it in this state.
BlockedOn(i, f) ==
    /\ locked[f]
    /\ \/ pc[i] = "acquire_first" /\ f = FirstFork(i)
       \/ pc[i] = "acquire_second" /\ f = SecondFork(i)

\* Wait-for edge: i is blocked on a fork that j holds.
WaitsFor(i, j) == \E f \in forks : BlockedOn(i, f) /\ f \in Holds(j)

\* Some non-empty set of philosophers each holding a fork and each waiting
\* for a fork held by a member of the set: a cycle of the wait-for graph.
WaitForCycle ==
    \E S \in SUBSET philosophers :
        /\ S # {}
        /\ \A i \in S : Holds(i) # {} /\ \E j \in S : WaitsFor(i, j)

\* Every philosopher holds its left fork and is blocked on its right fork.
CircularWait ==
    /\ philosophers # {}
    /\ \A i \in philosophers :
          /\ Holds(i) = {left_fork[i]}
          /\ pc[i] = "acquire_second"
          /\ BlockedOn(i, right_fork[i])

AllTerminated == philosophers # {} /\ \A i \in philosophers : pc[i] = "done"
AllStopSet == philosophers # {} /\ \A i \in philosophers : ~running[i]
Reported == verdict # "none"

----------------------------------------------------------------------------
\* Properties

\* C1: mutual exclusion.  In every reachable state, for every table size and
\* strategy, no fork is held by two different philosophers.
C1_MutualExclusion ==
    \A i, j \in philosophers : i # j => Holds(i) \cap Holds(j) = {}

\* C1 witness: on a table of 3, two philosophers hold forks at the same time
\* while the third is blocked on a fork one of them holds.
C1_Witness ==
    /\ num_philosophers = 3
    /\ \E i, j, w \in philosophers :
          /\ i # j /\ Holds(i) # {} /\ Holds(j) # {}
          /\ w # i /\ WaitsFor(w, i)

\* C2: under the hierarchy strategy, for every table of 2 or more, no
\* reachable state has a cycle in the wait-for graph; in particular the
\* state where every philosopher holds one fork and waits is unreachable.
C2_HierarchyNoCycle ==
    (strategy_name = "hierarchy" /\ num_philosophers >= 2) =>
        /\ ~WaitForCycle
        /\ ~(philosophers # {} /\
             \A i \in philosophers :
                 Cardinality(Holds(i)) = 1 /\ \E f \in forks : BlockedOn(i, f))

\* C2 witness: hierarchy, table of 3, a wait-for chain of two philosophers
\* (w waits for i, i waits for j) that does not close.
C2_Witness ==
    /\ strategy_name = "hierarchy"
    /\ num_philosophers = 3
    /\ \E w, i, j \in philosophers : WaitsFor(w, i) /\ WaitsFor(i, j)

\* C3: under the asymmetric strategy, for every table of 2 or more, of even
\* or odd size, no reachable state has a cycle in the wait-for graph.
C3_AsymmetricNoCycle ==
    (strategy_name = "asymmetric" /\ num_philosophers >= 2) => ~WaitForCycle

\* C3 witness: asymmetric, odd table of 3, an even philosopher that took its
\* left fork first and an odd one that took its right fork first each hold
\* one fork and go for their second, and the third philosopher is blocked on
\* a fork one of them holds.
C3_Witness ==
    /\ strategy_name = "asymmetric"
    /\ num_philosophers = 3
    /\ \E e, o, w \in philosophers :
          /\ e % 2 = 0 /\ Holds(e) = {left_fork[e]} /\ pc[e] = "acquire_second"
          /\ o % 2 = 1 /\ Holds(o) = {right_fork[o]} /\ pc[o] = "acquire_second"
          /\ w \notin {e, o}
          /\ WaitsFor(w, e) \/ WaitsFor(w, o)

C5_CircularWaitStep ==
    (strategy_name = "deadlock" /\ num_philosophers >= 2 /\ CircularWait) =>
        /\ CircularWait'
        /\ (~Reported /\ Reported') =>
              /\ verdict' = "deadlock"
              /\ alive_count' = num_philosophers
              /\ Len(report_lines') = num_philosophers
              /\ \A n \in 1 .. Len(report_lines') :
                    report_lines'[n].status = "BLOCKED"

C5_CircularWaitIsDeadlock == [][C5_CircularWaitStep]_vars

\* C5 witness: deadlock strategy, table of 3, the circular wait holds and the
\* report has declared deadlock with 3 philosophers blocked.
C5_Witness ==
    /\ strategy_name = "deadlock"
    /\ num_philosophers = 3
    /\ CircularWait
    /\ verdict = "deadlock"
    /\ alive_count = 3

\* C6 as claimed: with NUM_PHILOSOPHERS = 5 and the deadlock strategy no
\* philosopher ever eats, and the report declares deadlock with all 5
\* philosophers blocked.
C6_DeadlockScenario ==
    (strategy_name = "deadlock" /\ num_philosophers = NUM_PHILOSOPHERS) =>
        /\ \A i \in philosophers : meals_eaten[i] = 0
        /\ Reported =>
              /\ verdict = "deadlock"
              /\ alive_count = NUM_PHILOSOPHERS
              /\ \A n \in 1 .. Len(report_lines) : report_lines[n].meals = 0

\* C7: under a fair scheduler DiningTable.start always finishes: once the
\* main thread has begun starting philosophers, report_results is reached
\* and its verdict logged, whatever the philosophers do.
C7_StartReachesReport == (tpc = "starting") ~> Reported

\* C7 witness: the report was produced although every join timed out on a
\* philosopher that is permanently blocked in the circular wait.
C7_Witness ==
    /\ Reported
    /\ num_philosophers >= 2
    /\ CircularWait
    /\ warned = philosophers

\* C8 as claimed: under a fair scheduler the process of a table of 2 or more
\* exits after the report, also when philosophers are still blocked.
C8_ProcessExitsAfterReport ==
    (num_philosophers >= 2 /\ Reported) ~> (tpc = "exited")

\* C9 as claimed: a table of fewer than 2 philosophers is rejected, so no
\* fork and no philosopher is ever created or started for it.
C9_SmallTableRejected ==
    num_philosophers < 2 => (forks = {} /\ philosophers = {})

\* C10: an invalid strategy name leads to exit status 1 with no fork and no
\* philosopher ever created or started and no report; a run whose report
\* declares deadlock went through report_results and never has exit status 1.
C10_InvalidStrategyRejected ==
    /\ ~(strategy_name \in StrategyValues) =>
          /\ tpc \in {"main", "exit1"}
          /\ forks = {} /\ philosophers = {} /\ pc = Empty
          /\ ~Reported
          /\ tpc = "exit1" => exit_status = 1
    /\ exit_status = 1 =>
          /\ ~(strategy_name \in StrategyValues)
          /\ tpc = "exit1"
    /\ verdict = "deadlock" =>
          /\ tpc \in {"shutdown", "exited"}
          /\ exit_status # 1
          /\ alive_count > 0

\* C10 witness: the process has exited with status 1 on the invalid name.
C10_Witness ==
    /\ strategy_name = "bogus"
    /\ tpc = "exit1"
    /\ exit_status = 1

\* C11 as claimed: once setup has built the table, philosopher i has left
\* fork i and right fork (i+1) mod N, so the assignment is a function of N
\* alone; every fork is the left fork of exactly one philosopher and the
\* right fork of exactly one other philosopher; and left # right when N > 1.
C11_SetupTopology ==
    philosophers # {} =>
        /\ philosophers = 0 .. (num_philosophers - 1)
        /\ forks = 0 .. (num_philosophers - 1)
        /\ \A i \in philosophers :
              /\ left_fork[i] = i
              /\ right_fork[i] = (i + 1) % num_philosophers
              /\ num_philosophers > 1 => left_fork[i] # right_fork[i]
        /\ \A f \in forks :
              \E l \in philosophers :
                 /\ \A i \in philosophers : left_fork[i] = f <=> i = l
                 /\ \E r \in philosophers \ {l} :
                       \A i \in philosophers : right_fork[i] = f <=> i = r

\* C12: the report declares deadlock if and only if at least one
\* philosopher had not terminated when the report counted the live threads,
\* and no deadlock if and only if all had terminated; a report produces
\* exactly one of the two verdicts and never replaces it.
C12_VerdictStep ==
    /\ (tpc = "report_alive" /\ tpc' = "report_lines") =>
          alive_count' = Cardinality({i \in philosophers : pc[i] # "done"})
    /\ (~Reported /\ Reported') =>
          /\ tpc = "report_verdict"
          /\ verdict' = "deadlock" <=> alive_count > 0
          /\ verdict' = "no_deadlock" <=> alive_count = 0
          /\ alive_count' = alive_count
    /\ Reported => verdict' = verdict /\ alive_count' = alive_count
    /\ tpc' \in {"shutdown", "exited"} => verdict' \in {"deadlock", "no_deadlock"}

C12_VerdictIffUnterminated == [][C12_VerdictStep]_vars

\* C12 witness: on a table of 3 the report found one philosopher not
\* terminated and two terminated, and declared deadlock.
C12_Witness ==
    /\ num_philosophers = 3
    /\ alive_count = 1
    /\ verdict = "deadlock"

\* C13 as claimed: on a table of 2 or more, every philosopher that start()
\* found alive when its join returned is shown as BLOCKED in the report and
\* counted in the blocked count, and the verdict of such a run is deadlock.
C13_JoinExpiryRecorded ==
    (num_philosophers >= 2 /\ Reported) =>
        /\ \A i \in warned : report_lines[i + 1].status = "BLOCKED"
        /\ alive_count >= Cardinality(warned)
        /\ warned # {} => verdict = "deadlock"

\* C14 as claimed: under hierarchy or asymmetric and a fair scheduler,
\* whenever a philosopher has begun a think+eat cycle before the stop signal
\* reached it, some philosopher eventually eats and the total of the meal
\* counts in the report is greater than 0.
C14_ProgressReported ==
    (/\ strategy_name \in {"hierarchy", "asymmetric"}
     /\ \E i \in philosophers : pc[i] = "think" /\ running[i])
        ~> (total_meals > 0)

\* C15 as claimed: with NUM_PHILOSOPHERS = 5 and the hierarchy strategy every
\* philosopher finishes with a meal count of at least 1, and the report shows
\* no philosopher blocked and declares no deadlock.
C15_HierarchyScenario ==
    (strategy_name = "hierarchy" /\ num_philosophers = NUM_PHILOSOPHERS) =>
        /\ \A i \in philosophers : pc[i] = "done" => meals_eaten[i] >= 1
        /\ Reported =>
              /\ verdict = "no_deadlock"
              /\ alive_count = 0
              /\ \A n \in 1 .. Len(report_lines) :
                    /\ report_lines[n].meals >= 1
                    /\ report_lines[n].status = "Finished"

\* C16: a philosopher blocked acquiring a fork does not observe the stop
\* signal: while the fork it waits for is locked no step, setting its stop
\* signal included, moves it or changes what it holds; and once the
\* circular wait of the deadlock strategy has formed, every later step
\* (setting the stop signal, joining, reporting) leaves every philosopher
\* alive, at its second acquire and holding exactly its left fork.
C16_BlockedStep ==
    /\ \A i \in philosophers :
          (\E f \in forks : BlockedOn(i, f)) =>
              /\ pc'[i] = pc[i]
              /\ held'[i] = held[i]
    /\ (strategy_name = "deadlock" /\ CircularWait) =>
          /\ CircularWait'
          /\ \A i \in philosophers :
                /\ is_alive(i)'
                /\ Holds(i)' = {left_fork[i]}
          /\ UNCHANGED <<pc, held, locked, meals_eaten>>

C16_StopNotObservedWhileBlocked == [][C16_BlockedStep]_vars

\* C16 witness: deadlock strategy, table of 3, the circular wait holds, the
\* stop signal has been set on every philosopher, and all of them are still
\* alive and blocked holding their left fork.
C16_Witness ==
    /\ strategy_name = "deadlock"
    /\ num_philosophers = 3
    /\ CircularWait
    /\ AllStopSet
    /\ \A i \in philosophers : is_alive(i) /\ meals_eaten[i] = 0

\* C17: under every strategy and whatever the stop signal does, a
\* philosopher that holds both of its forks takes exactly these steps, in
\* this order: it eats (its meal count goes up by one), releases the fork it
\* acquired second, releases the fork it acquired first, and only then is
\* back at its loop test holding nothing; under a fair scheduler it always
\* gets there.
C17_HoldingBothStep ==
    \A i \in philosophers :
        /\ (Len(held[i]) = 2 /\ pc'[i] # pc[i]) =>
              \/ /\ pc[i] = "eat" /\ pc'[i] = "release_second"
                 /\ meals_eaten'[i] = meals_eaten[i] + 1
                 /\ held'[i] = held[i]
              \/ /\ pc[i] = "release_second" /\ pc'[i] = "release_first"
                 /\ meals_eaten'[i] = meals_eaten[i]
                 /\ held'[i] = <<FirstFork(i)>>
                 /\ ~locked'[SecondFork(i)]
        /\ (pc[i] = "release_first" /\ pc'[i] # pc[i]) =>
              /\ pc'[i] = "loop"
              /\ held[i] = <<FirstFork(i)>> /\ held'[i] = <<>>
              /\ ~locked'[FirstFork(i)]
              /\ meals_eaten'[i] = meals_eaten[i] /\ meals_eaten[i] >= 1
        /\ (pc[i] # pc'[i] /\ pc'[i] \in {"loop", "think", "done"}) =>
              Len(held[i]) < 2 /\ held'[i] = <<>>

\* Philosopher ids of the largest table in TableSizes.
TableIds == 0 .. (SmallestHarnessSize - 1)

C17_EatingCompletesAndReleases ==
    /\ [][C17_HoldingBothStep]_vars
    /\ \A i \in TableIds :
          (i \in philosophers /\ Len(held[i]) = 2)
              ~> (i \in philosophers /\ pc[i] = "loop" /\ held[i] = <<>>
                    /\ meals_eaten[i] >= 1)

\* C17 witness: on a table of 3, a philosopher on which the stop signal was
\* set while it held both forks has eaten, has released the fork it acquired
\* second and is about to release the other.
C17_Witness ==
    /\ num_philosophers = 3
    /\ \E i \in philosophers :
          /\ ~running[i]
          /\ pc[i] = "release_first"
          /\ held[i] = <<FirstFork(i)>>
          /\ meals_eaten[i] = 1

\* C18: forks are released in reverse acquisition order and never leak.  In
\* every strategy a philosopher gives up forks one at a time, always the one
\* it acquired last, so the fork acquired second is released before the fork
\* acquired first; a philosopher that is thinking, at its loop test, about
\* to take its first fork or stopped holds no fork; and a fork is locked
\* exactly when some philosopher holds it.
C18_NoLeak ==
    /\ \A i \in philosophers :
          pc[i] \in {"created", "loop", "think", "acquire_first", "done"}
              => held[i] = <<>>
    /\ \A f \in forks : locked[f] <=> \E i \in philosophers : f \in Holds(i)

C18_ReleaseStep ==
    /\ C18_NoLeak
    /\ C18_NoLeak'
    /\ \A i \in philosophers :
          Len(held'[i]) < Len(held[i]) =>
              /\ held'[i] = SubSeq(held[i], 1, Len(held[i]) - 1)
              /\ ~locked'[held[i][Len(held[i])]]

C18_ReverseOrderNoLeak == [][C18_ReleaseStep]_vars

\* C18 witness: asymmetric strategy, table of 3, an odd philosopher (right
\* fork first, left fork second) has released its left fork, which is
\* unlocked again, and still holds its right fork.
C18_Witness ==
    /\ strategy_name = "asymmetric"
    /\ num_philosophers = 3
    /\ \E i \in philosophers :
          /\ i % 2 = 1
          /\ pc[i] = "release_first"
          /\ held[i] = <<right_fork[i]>>
          /\ ~locked[left_fork[i]]

\* C19 (amended): after releasing its forks a philosopher is back at its
\* loop test and nowhere else; it transitions to Stopped only from the loop
\* test, and it begins another Thinking phase only from the loop test and
\* only if the stop signal is unset on it.
C19_LoopTestStep ==
    \A i \in philosophers :
        /\ (pc[i] = "release_first" /\ pc'[i] # pc[i]) => pc'[i] = "loop"
        /\ (pc[i] = "loop" /\ pc'[i] # pc[i]) => pc'[i] \in {"think", "done"}
        /\ (pc[i] # "done" /\ pc'[i] = "done") => pc[i] = "loop"
        /\ (pc[i] # "think" /\ pc'[i] = "think") =>
              pc[i] = "loop" /\ running[i]

C20_HierarchyLowerFirst ==
    strategy_name = "hierarchy" =>
        \A i \in philosophers :
            /\ (Len(held[i]) = 1 /\ pc[i] = "acquire_second") =>
                  /\ \A g \in {left_fork[i], right_fork[i]} \ {held[i][1]} :
                        held[i][1] < g
                  /\ (num_philosophers >= 2 /\ i = num_philosophers - 1) =>
                        held[i][1] = 0 /\ left_fork[i] = num_philosophers - 1
                  /\ i < num_philosophers - 1 =>
                        held[i][1] = left_fork[i]
            /\ Len(held[i]) = 2 => held[i][1] < held[i][2]
            /\ Len(held[i]) <= 2

\* C20 witness: hierarchy, table of 3: philosopher 2, whose left fork is 2
\* and right fork is 0, holds fork 0 and is blocked on fork 2, which
\* philosopher 1 holds together with fork 1.
C20_Witness ==
    /\ strategy_name = "hierarchy"
    /\ num_philosophers = 3
    /\ philosophers # {}
    /\ held[2] = <<0>>
    /\ pc[2] = "acquire_second"
    /\ BlockedOn(2, 2)
    /\ held[1] = <<1, 2>>

\* C21 (amended): in every cycle a philosopher's meals_eaten is incremented
\* exactly once, by 1, at the end of the eating interval (the philosopher is
\* inside eat() until then and goes on to release its forks); the increment
\* occurs only while the philosopher holds both of its forks, which are
\* locked, and meals_eaten never decreases.
C21_CountStep ==
    \A i \in philosophers :
        /\ meals_eaten'[i] >= meals_eaten[i]
        /\ meals_eaten'[i] # meals_eaten[i] =>
              /\ meals_eaten'[i] = meals_eaten[i] + 1
              /\ pc[i] = "eat" /\ pc'[i] = "release_second"
              /\ Holds(i) = {left_fork[i], right_fork[i]}
              /\ Len(held[i]) = 2 /\ held'[i] = held[i]
              /\ locked[left_fork[i]] /\ locked[right_fork[i]]
              /\ locked' = locked
        /\ (pc[i] = "eat" /\ pc'[i] # pc[i]) =>
              meals_eaten'[i] = meals_eaten[i] + 1
        /\ (pc[i] # "eat" /\ pc'[i] # pc[i]) =>
              meals_eaten'[i] = meals_eaten[i]

C21_CountedOncePerCycle == [][C21_CountStep]_vars

\* C21 witness: on a table of 2 a philosopher has just counted the meal of
\* its second cycle and still holds both forks.
C21_Witness ==
    /\ num_philosophers = 2
    /\ \E i \in philosophers :
          /\ pc[i] = "release_second"
          /\ meals_eaten[i] = 2
          /\ Len(held[i]) = 2

\* C21 as claimed: the increment comes upon obtaining both forks, before the
\* eating interval is held, so on a table of 2 or more a philosopher that is
\* inside the eating interval of eat() has its current meal counted already.
C21_CountedBeforeEating ==
    num_philosophers >= 2 =>
        \A i \in philosophers : pc[i] = "eat" => meals_eaten[i] >= 1

\* C22: single-writer state.  A philosopher's meals_eaten is changed only by
\* that philosopher's own eat step, which changes no other philosopher's
\* count and no running flag; a running flag is written only by the table's
\* stop step, for the philosopher the stop loop is at, from true to false
\* and never back; and the stop step leaves every meal count, every fork's
\* lock and holder and every philosopher's position unchanged.
C22_WriterStep ==
    /\ \A i \in philosophers :
          /\ meals_eaten'[i] # meals_eaten[i] =>
                /\ pc[i] = "eat" /\ pc'[i] # "eat"
                /\ \A j \in philosophers \ {i} :
                      meals_eaten'[j] = meals_eaten[j] /\ pc'[j] = pc[j]
                /\ running' = running
                /\ tpc' = tpc /\ k' = k
          /\ running'[i] # running[i] =>
                /\ running[i] /\ ~running'[i]
                /\ tpc = "stopping" /\ k = i
                /\ \A j \in philosophers \ {i} : running'[j] = running[j]
    /\ (tpc = "stopping" /\ <<tpc, k>>' # <<tpc, k>>) =>
          /\ ~running'[k]
          /\ UNCHANGED <<meals_eaten, held, locked, pc>>

C22_SingleWriter == [][C22_WriterStep]_vars

\* C22 witness: on a table of 3 the stop loop has set the stop signal on
\* philosopher 0, which had eaten, and not yet on philosopher 1, while some
\* philosopher holds a fork.
C22_Witness ==
    /\ num_philosophers = 3
    /\ tpc = "stopping" /\ k = 1
    /\ ~running[0] /\ running[1]
    /\ meals_eaten[0] = 1
    /\ \E j \in philosophers : held[j] # <<>>

\* C23: table lifecycle ordering.  In every run all philosophers are started
\* before any stop signal is set; the stop signal is set on every philosopher
\* before the first join begins; the joins are attempted on the philosophers
\* one after the other; and the report is entered only from the join of the
\* last philosopher, so nothing of it is produced before a join has been
\* attempted on every philosopher.
C23_Ordered ==
    /\ (\E i \in philosophers : ~running[i]) =>
          \A j \in philosophers : pc[j] # "created"
    /\ tpc \in {"joining", "report_total", "report_alive", "report_lines",
                "report_verdict", "shutdown", "exited"} => AllStopSet
    /\ tpc \in {"main", "setup", "exit1", "starting", "sleeping", "stopping",
                "joining"} =>
          /\ total_meals = NoVal /\ alive_count = NoVal
          /\ report_lines = <<>> /\ ~Reported
    /\ tpc \in {"main", "setup", "exit1", "starting", "sleeping", "stopping"}
          => warned = {}

C23_LifecycleStep ==
    /\ C23_Ordered
    /\ C23_Ordered'
    /\ (tpc # "stopping" /\ tpc' = "stopping") =>
          /\ tpc = "sleeping"
          /\ \A j \in philosophers : pc[j] # "created" /\ running[j]
    /\ (tpc # "joining" /\ tpc' = "joining") =>
          tpc = "stopping" /\ k = num_philosophers - 1 /\ k' = 0
    /\ (tpc = "joining" /\ tpc' = "joining" /\ k' # k) => k' = k + 1
    /\ (tpc # "report_total" /\ tpc' = "report_total") =>
          tpc = "joining" /\ k = num_philosophers - 1

C23_LifecycleOrdering == [][C23_LifecycleStep]_vars

\* C23 witness: on a table of 3 the join loop has been through all three
\* philosophers, one of which it found alive, and the report is about to
\* begin with the stop signal set on everyone.
C23_Witness ==
    /\ num_philosophers = 3
    /\ tpc = "report_total"
    /\ AllStopSet
    /\ Cardinality(warned) = 1
    /\ total_meals = NoVal

\* Meals philosopher i can still complete without passing its loop test: 1
\* while it is in a cycle and has not counted its meal yet, 0 otherwise.
Pending(i) ==
    IF pc[i] \in {"think", "acquire_first", "pause", "acquire_second", "eat"}
      THEN 1 ELSE 0

\* C24: after the stop signal has been set on a philosopher, that philosopher
\* starts no new cycle (it never goes from its loop test to Thinking), the
\* signal stays set, and its meal count plus the meal of the cycle in
\* progress never grows; so its meals_eaten increases by at most 1 after the
\* stop signal, and only by completing the cycle already in progress.
C24_AfterStopStep ==
    \A i \in philosophers :
        ~running[i] =>
            /\ ~running'[i]
            /\ ~(pc[i] = "loop" /\ pc'[i] = "think")
            /\ meals_eaten'[i] + Pending(i)' <= meals_eaten[i] + Pending(i)
            /\ meals_eaten'[i] <= meals_eaten[i] + 1

C24_NoNewCycleAfterStop == [][C24_AfterStopStep]_vars

\* C24 witness: on a table of 2 the stop signal reached a philosopher in its
\* second cycle; it is inside eat() with one meal counted and one pending.
C24_Witness ==
    /\ num_philosophers = 2
    /\ \E i \in philosophers :
          /\ ~running[i]
          /\ pc[i] = "eat"
          /\ meals_eaten[i] = 1

\* No philosopher thread can take a step.
Quiescent == \A i \in philosophers : ~ENABLED PhilNext(i)

\* Philosophers that have been started, have not terminated and cannot take
\* a step.
Blocked == {i \in philosophers : is_alive(i) /\ ~ENABLED PhilNext(i)}

\* C25: under the deadlock strategy on a table of 2 or more, blocking is
\* all-or-nothing: in every reachable state where no philosopher can take a
\* step, either no philosopher is blocked (each one has terminated or has
\* not been started yet) or all N philosophers hold their left fork and wait
\* for their right fork; a quiescent state with between 1 and N-1 blocked
\* philosophers is unreachable.
C25_AllOrNothing ==
    (strategy_name = "deadlock" /\ num_philosophers >= 2 /\ Quiescent) =>
        \/ Blocked = {}
        \/ /\ Blocked = philosophers
           /\ Cardinality(Blocked) = num_philosophers
           /\ CircularWait

\* C25 witness: deadlock strategy, table of 3, before the table has set any
\* stop signal: no philosopher can take a step and all three are blocked in
\* the circular wait.
C25_Witness ==
    /\ strategy_name = "deadlock"
    /\ num_philosophers = 3
    /\ tpc = "sleeping"
    /\ Quiescent
    /\ Blocked = philosophers
    /\ CircularWait

\* C26 as claimed: on a table of 2 or more, also when philosophers are still
\* running while the report is produced, the reported total of meals equals
\* the sum of the meal counts on the report's per-philosopher lines, and the
\* reported blocked count equals the number of lines that say BLOCKED.
C26_ReportConsistent ==
    (num_philosophers >= 2 /\ Reported) =>
        /\ total_meals =
              SumOver([n \in 1 .. Len(report_lines) |-> report_lines[n].meals],
                      1 .. Len(report_lines))
        /\ alive_count =
              Cardinality({n \in 1 .. Len(report_lines) :
                              report_lines[n].status = "BLOCKED"})

====
